---- MODULE Spec2Model ----
(***************************************************************************)
(* The guess/verify/retry loop of connections/__main__.py: run_connections *)
(* drives call_llm (memoized on disk) until every word is connected or     *)
(* four wrong guesses have been recorded.                                  *)
(*                                                                         *)
(* Items are modelled as the integers 1..16 (the order of the integers is  *)
(* the lexicographic order of the words, which is all sorted() uses).      *)
(***************************************************************************)
EXTENDS Integers, Sequences, FiniteSets, TLC

VARIABLES pc, remaining_words, correct_sets, errors, wordlist, result,
          groups, cache, calls, output, call_args, prompt

vars == <<pc, remaining_words, correct_sets, errors, wordlist, result,
          groups, cache, calls, output, call_args, prompt>>

\* what only a call of call_llm changes: the arguments of the last call
\* and the last prompt the body of call_llm built and printed
callvars == <<call_args, prompt>>

(* ---------------------------- bounds ----------------------------------- *)

\* the shuffles explored are the rotations of the sorted list by 0..MaxRot
MaxRot == 1
\* longest response the language model returns, Endings aside
MaxGroups == 2
\* responses are explored while correct_sets has at most this many entries
MaxConfirmed == 4
\* calls counts the oracle calls of the run up to this value and stays there
MaxCalls == 8

(* ------------------------ program constants ---------------------------- *)

\* the error budget of the while condition and of "Guesses remaining"
MaxErrors == 4

\* main(): the four comma-separated command-line groups
correct_answers ==
    << <<1, 2, 3, 4>>, <<5, 6, 7, 8>>, <<9, 10, 11, 12>>, <<13, 14, 15, 16>> >>

(* ------------------------------ helpers -------------------------------- *)

\* set(items)
ToSet(s) == {s[i] : i \in 1..Len(s)}

Reverse(s) == [i \in 1..Len(s) |-> s[Len(s) + 1 - i]]

\* answer_sheet = set(frozenset(a) for a in correct_answers)
answer_sheet == {ToSet(correct_answers[i]) : i \in 1..Len(correct_answers)}

\* set.union(*(set(a) for a in correct_answers))
AllWords == UNION {ToSet(correct_answers[i]) : i \in 1..Len(correct_answers)}

\* the words in lexicographic order
InOrder == [i \in 1..Cardinality(AllWords) |-> i]

\* sorted(remaining_words): the words of S in lexicographic order
sorted(S) == LET keep(x) == x \in S IN SelectSeq(InOrder, keep)

\* s with its first k entries moved to the end
Rotate(s, k) ==
    IF s = << >> THEN s
    ELSE SubSeq(s, (k % Len(s)) + 1, Len(s)) \o SubSeq(s, 1, k % Len(s))

\* r.shuffle(wordlist): the generator state is not modelled, the result is
\* some permutation of the list; the ones explored are its rotations
Shuffles(s) == IF s = << >> THEN {s} ELSE {Rotate(s, k) : k \in 0..MaxRot}

(* ------------------------ the oracle's answers ------------------------- *)

\* items lists the language model proposes in the responses explored: the
\* first answer group (in another order than the answer key lists it), a
\* group of four that overlaps two answer groups and a strict subset of an
\* answer group
Partial == <<1, 2, 3, 5>>
Short == <<1, 2, 3>>

Candidates == {Reverse(correct_answers[1]), Partial, Short}

SeqsUpTo(S, n) == UNION {[1..k -> S] : k \in 0..n}

\* a strict superset of an answer group
Long == <<1, 2, 3, 4, 5>>

\* the other three answer groups
Rest == <<correct_answers[3], correct_answers[4], correct_answers[2]>>

\* the whole solution in one response
Full ==
    <<correct_answers[3], Reverse(correct_answers[1]), correct_answers[4],
      correct_answers[2]>>

\* the whole solution again, in another order of groups and of items
Turned ==
    <<Reverse(correct_answers[2]), correct_answers[1],
      Reverse(correct_answers[4]), Rotate(correct_answers[3], 1)>>

\* the responses that bring the other three answer groups, alone or with a
\* wrong group last
Endings == {Full, Turned, Rest, Full \o <<Long>>, Rest \o <<Long>>}

\* the groups lists a well-formed response may carry
Responses == SeqsUpTo(Candidates, MaxGroups) \cup Endings

\* resp.choices[0].message.content after the fence is stripped: json says
\* whether json.loads accepts it, reason whether every group has a reason
Contents ==
    {[json |-> TRUE, reason |-> TRUE, groups |-> g] : g \in Responses}
    \cup {[json |-> FALSE, reason |-> FALSE, groups |-> << >>],
          [json |-> TRUE, reason |-> FALSE, groups |-> <<Short>>]}

\* ConnectionsGuesses(**json.loads(content)) succeeds
Parses(content) == content.json /\ content.reason

(* ------------------------------ the prompt ----------------------------- *)

\* the words the integers stand for
Word == <<"A", "B", "C", "D", "E", "F", "G", "H",
          "I", "J", "K", "L", "M", "N", "O", "P">>

\* A text is the sequence of its pieces: a word, a quotation mark, a comma,
\* a newline or one of the two fixed sentences of format_errors.

RECURSIVE JoinFrom(_, _, _)
\* sep.join(texts[i:])
JoinFrom(sep, texts, i) ==
    IF i > Len(texts) THEN << >>
    ELSE IF i = Len(texts) THEN texts[i]
    ELSE texts[i] \o sep \o JoinFrom(sep, texts, i + 1)

\* sep.join(texts)
Join(sep, texts) == JoinFrom(sep, texts, 1)

\* line 62 without the quotation marks
format_list_unquoted(lst) ==
    Join(<<",">>, [i \in 1..Len(lst) |-> <<Word[lst[i]]>>])

\* line 62: ",".join([f'"{item}"' for item in lst])
format_list(lst) ==
    Join(<<",">>, [i \in 1..Len(lst) |-> <<"\"", Word[lst[i]], "\"">>])

\* lines 67-72
format_errors(error) ==
    <<"You previously guessed ", "\n">>
    \o Join(<<"\n">>, [i \in 1..Len(error) |-> format_list(error[i])])
    \o <<"\n", "Those answers are not correct. Do not repeat them.", "\n">>

\* lines 81-86: what goes into the two places of PROMPT
Render(items, error) ==
    [items |-> Join(<<",">>, [i \in 1..Len(items) |-> <<Word[items[i]]>>]),
     error_str |-> IF error # << >> THEN format_errors(error) ELSE << >>]

(* ------------------------------ the cache ------------------------------ *)

\* the memoize key of call_llm(model, PROMPT, wordlist, errors); model and
\* PROMPT are the same in every call of a run
Key(items, error) == [items |-> items, error |-> error]

Cached(k) == \E e \in cache : e.key = k

Lookup(k) == (CHOOSE e \in cache : e.key = k).value

\* The cache variable holds the entries a later call of this run can still
\* request.  errors only grows and remaining_words only shrinks, so an
\* entry whose key has other errors or other words than the current ones is
\* never requested again, and the model drops it when that happens.
Live(words, error) ==
    {e \in cache : e.key.error = error /\ ToSet(e.key.items) = words}

\* memoize: cache the value the function returned under the key
Store(k, v) == cache \cup {[key |-> k, value |-> v]}

(* ------------------------------- the loop ------------------------------ *)

Matching(g) == Cardinality({i \in 1..Len(g) : ToSet(g[i]) \in answer_sheet})

\* keeps correct_sets within MaxConfirmed
Admissible(g) == Len(correct_sets) + Matching(g) <= MaxConfirmed

\* line 124 with a subset test in place of the membership test
IsCorrectSubset(items) == \E a \in answer_sheet : ToSet(items) \subseteq a

\* line 124: set(items) in answer_sheet
IsCorrect(items) == ToSet(items) \in answer_sheet

\* one more call of call_llm
Count(n) == IF n < MaxCalls THEN n + 1 ELSE n

\* line 113 with <= in place of <
LoopConditionOffByOne == remaining_words # {} /\ Len(errors) <= MaxErrors

\* while remaining_words and len(errors) < 4
LoopCondition == remaining_words # {} /\ Len(errors) < MaxErrors

Init ==
    /\ pc = "while"
    /\ remaining_words = AllWords
    /\ correct_sets = << >>
    /\ errors = << >>
    /\ wordlist = << >>
    /\ result = << >>
    /\ groups = << >>
    /\ cache = {}
    /\ calls = 0
    /\ output = [kind |-> "none"]
    /\ call_args = Key(<< >>, << >>)
    /\ prompt = [items |-> << >>, error_str |-> << >>]

\* lines 113-121, call_llm answered from the cache
CallHit ==
    /\ pc = "while"
    /\ LoopCondition
    /\ \E w \in Shuffles(sorted(remaining_words)) :
          /\ Cached(Key(w, errors))
          /\ Admissible(Lookup(Key(w, errors)))
          /\ wordlist' = w
          /\ call_args' = Key(w, errors)
          /\ result' = Lookup(Key(w, errors))
    /\ groups' = result'
    /\ calls' = Count(calls)
    /\ pc' = "for"
    /\ UNCHANGED <<remaining_words, correct_sets, errors, cache, output,
                   prompt>>

\* lines 113-121 with call_llm not memoized: completion() runs for a cached key
CallMissUnmemoized ==
    /\ pc = "while"
    /\ LoopCondition
    /\ \E w \in Shuffles(sorted(remaining_words)) :
          /\ wordlist' = w
          /\ call_args' = Key(w, errors)
          /\ prompt' = Render(w, errors)
          /\ \E c \in Contents :
                /\ Parses(c)
                /\ Admissible(c.groups)
                /\ result' = c.groups
                /\ cache' = Store(Key(w, errors), c.groups)
    /\ groups' = result'
    /\ calls' = Count(calls)
    /\ pc' = "for"
    /\ UNCHANGED <<remaining_words, correct_sets, errors, output>>

\* lines 113-121, call_llm runs completion() and the content, one of pool,
\* parses
CallMissOf(pool) ==
    /\ pc = "while"
    /\ LoopCondition
    /\ \E w \in Shuffles(sorted(remaining_words)) :
          /\ ~Cached(Key(w, errors))
          /\ wordlist' = w
          /\ call_args' = Key(w, errors)
          /\ prompt' = Render(w, errors)
          /\ \E c \in pool :
                /\ Parses(c)
                /\ Admissible(c.groups)
                /\ result' = c.groups
                /\ cache' = Store(Key(w, errors), c.groups)
    /\ groups' = result'
    /\ calls' = Count(calls)
    /\ pc' = "for"
    /\ UNCHANGED <<remaining_words, correct_sets, errors, output>>

\* lines 113-121, call_llm runs completion() and the content parses
CallMiss == CallMissOf(Contents)

\* lines 113-117 with the response cached before line 100 raises
CallFailCached ==
    /\ pc = "while"
    /\ LoopCondition
    /\ \E w \in Shuffles(sorted(remaining_words)) :
          /\ ~Cached(Key(w, errors))
          /\ wordlist' = w
          /\ call_args' = Key(w, errors)
          /\ prompt' = Render(w, errors)
          /\ \E c \in Contents :
                /\ ~Parses(c)
                /\ cache' = Store(Key(w, errors), c.groups)
    /\ calls' = Count(calls)
    /\ pc' = "aborted"
    /\ UNCHANGED <<remaining_words, correct_sets, errors, result, groups,
                   output>>

\* lines 113-117, call_llm runs completion() and line 100 raises on the
\* content, one of pool
CallFailOf(pool) ==
    /\ pc = "while"
    /\ LoopCondition
    /\ \E w \in Shuffles(sorted(remaining_words)) :
          /\ ~Cached(Key(w, errors))
          /\ wordlist' = w
          /\ call_args' = Key(w, errors)
          /\ prompt' = Render(w, errors)
          /\ \E c \in pool : ~Parses(c)
    /\ calls' = Count(calls)
    /\ pc' = "aborted"
    /\ UNCHANGED <<remaining_words, correct_sets, errors, result, groups,
                   cache, output>>

\* lines 113-117, call_llm runs completion() and line 100 raises
CallFail == CallFailOf(Contents)

\* lines 122-127 without the removal of line 126
CorrectNotRemoved ==
    /\ pc = "for"
    /\ groups # << >>
    /\ IsCorrect(Head(groups))
    /\ correct_sets' = Append(correct_sets, ToSet(Head(groups)))
    /\ groups' = Tail(groups)
    /\ UNCHANGED callvars
    /\ UNCHANGED <<pc, remaining_words, errors, wordlist, result, cache, calls,
                   output>>

\* lines 122-127: the next group of the response is an answer group
Correct ==
    /\ pc = "for"
    /\ groups # << >>
    /\ IsCorrect(Head(groups))
    /\ remaining_words' = remaining_words \ ToSet(Head(groups))
    /\ correct_sets' = Append(correct_sets, ToSet(Head(groups)))
    /\ groups' = Tail(groups)
    /\ cache' = Live(remaining_words', errors)
    /\ UNCHANGED callvars
    /\ UNCHANGED <<pc, errors, wordlist, result, calls, output>>

\* lines 128-130 without the break of line 131
IncorrectNoBreak ==
    /\ pc = "for"
    /\ groups # << >>
    /\ ~IsCorrect(Head(groups))
    /\ errors' = Append(errors, Head(groups))
    /\ groups' = Tail(groups)
    /\ cache' = Live(remaining_words, errors')
    /\ UNCHANGED callvars
    /\ UNCHANGED <<pc, remaining_words, correct_sets, wordlist, result, calls,
                   output>>

\* lines 128-131: the next group of the response is no answer group
Incorrect ==
    /\ pc = "for"
    /\ groups # << >>
    /\ ~IsCorrect(Head(groups))
    /\ errors' = Append(errors, Head(groups))
    /\ groups' = << >>
    /\ pc' = "while"
    /\ cache' = Live(remaining_words, errors')
    /\ UNCHANGED callvars
    /\ UNCHANGED <<remaining_words, correct_sets, wordlist, result, calls,
                   output>>

\* line 122: the response has no further group
ForEnd ==
    /\ pc = "for"
    /\ groups = << >>
    /\ pc' = "while"
    /\ UNCHANGED callvars
    /\ UNCHANGED <<remaining_words, correct_sets, errors, wordlist, result,
                   groups, cache, calls, output>>

\* lines 133-135 reporting the guesses used in place of those remaining
ReportSolvedUsed ==
    /\ pc = "while"
    /\ ~LoopCondition
    /\ remaining_words = {}
    /\ output' = [kind |-> "solved", guesses_remaining |-> Len(errors)]
    /\ pc' = "done"
    /\ UNCHANGED callvars
    /\ UNCHANGED <<remaining_words, correct_sets, errors, wordlist, result,
                   groups, cache, calls>>

\* lines 133-135
ReportSolved ==
    /\ pc = "while"
    /\ ~LoopCondition
    /\ remaining_words = {}
    /\ output' = [kind |-> "solved",
                  guesses_remaining |-> MaxErrors - Len(errors)]
    /\ pc' = "done"
    /\ UNCHANGED callvars
    /\ UNCHANGED <<remaining_words, correct_sets, errors, wordlist, result,
                   groups, cache, calls>>

\* lines 136-142
ReportFailed ==
    /\ pc = "while"
    /\ ~LoopCondition
    /\ remaining_words # {}
    /\ output' = [kind |-> "failed", found |-> correct_sets,
                  remaining |-> remaining_words]
    /\ pc' = "done"
    /\ UNCHANGED callvars
    /\ UNCHANGED <<remaining_words, correct_sets, errors, wordlist, result,
                   groups, cache, calls>>

Next ==
    \/ CallHit
    \/ CallMiss
    \/ CallFail
    \/ Correct
    \/ Incorrect
    \/ ForEnd
    \/ ReportSolved
    \/ ReportFailed

Spec == Init /\ [][Next]_vars

\* the program never skips a step it can take
FairSpec == Spec /\ WF_vars(Next)

(* ------------------------------- claims -------------------------------- *)

\* the group the for loop is looking at, when it is looking at one
Examining == pc = "for" /\ groups # << >>

\* the items of g are, as a set, the items of one group of the answer key
EqualsAnAnswer(g) ==
    \E i \in 1..Len(correct_answers) :
        /\ \A j \in 1..Len(g) :
              \E k \in 1..Len(correct_answers[i]) : g[j] = correct_answers[i][k]
        /\ \A k \in 1..Len(correct_answers[i]) :
              \E j \in 1..Len(g) : g[j] = correct_answers[i][k]

\* C1: the group the loop examines is confirmed (its items leave
\* remaining_words, the group is appended to correct_sets) exactly when its
\* items are, as a set, those of an answer group; every other group, a
\* partial overlap, a strict subset or a strict superset among them, is
\* appended to errors and confirms nothing.
C1_ConfirmedIffAnswer ==
    [][Examining =>
         LET g == Head(groups)
             confirmed == /\ correct_sets' = Append(correct_sets, ToSet(g))
                          /\ remaining_words' = remaining_words \ ToSet(g)
                          /\ errors' = errors
             rejected == /\ errors' = Append(errors, g)
                         /\ correct_sets' = correct_sets
                         /\ remaining_words' = remaining_words
         IN  (EqualsAnAnswer(g) => confirmed) /\ (~EqualsAnAnswer(g) => rejected)
      ]_vars

\* C1 witness: the first answer group was confirmed from a list in another
\* order than the key's, and the partial overlap, the strict subset and the
\* strict superset were each rejected
C1_Witness ==
    /\ \E i \in 1..Len(correct_sets) : correct_sets[i] = {1, 2, 3, 4}
    /\ \E i \in 1..Len(errors) : errors[i] = Partial
    /\ \E i \in 1..Len(errors) : errors[i] = Short
    /\ \E i \in 1..Len(errors) : errors[i] = Long

\* C2: when the group the loop examines matches no answer group, exactly
\* that group is appended to errors and the response is left: the groups
\* after it are not examined, so they change neither remaining_words nor
\* correct_sets nor errors.
C2_StopAtFirstWrong ==
    [][Examining /\ ~EqualsAnAnswer(Head(groups)) =>
         /\ errors' = Append(errors, Head(groups))
         /\ pc' = "while"
         /\ groups' = << >>
         /\ remaining_words' = remaining_words
         /\ correct_sets' = correct_sets
      ]_vars

\* C2 witness: the response was a wrong group followed by an answer group;
\* the wrong group alone was recorded and the answer group did not count
C2_Witness ==
    /\ pc = "while"
    /\ result = <<Partial, Reverse(correct_answers[1])>>
    /\ errors = <<Partial>>
    /\ correct_sets = << >>
    /\ remaining_words = AllWords

\* C3: never more than 4 rejected guesses are recorded, and never more
\* than one for each oracle response.
C3_ErrorBudget ==
    /\ Len(errors) <= 4
    /\ Len(errors) <= calls

\* C3 witness: four responses, four rejected guesses
C3_Witness == Len(errors) = 4 /\ calls = 4

\* C4: every confirmation takes exactly the group's item count out of
\* remaining_words and adds exactly one entry to correct_sets.
C4_ConfirmShrinks ==
    [][correct_sets' # correct_sets =>
         /\ Len(correct_sets') = Len(correct_sets) + 1
         /\ Cardinality(remaining_words')
              = Cardinality(remaining_words) - Len(Head(groups))
      ]_vars

\* the run was cut short by MaxConfirmed: every shuffle explored is cached
\* with a response that would take correct_sets beyond it
CutShort ==
    /\ pc = "while"
    /\ remaining_words # {}
    /\ Len(errors) < 4
    /\ \A w \in Shuffles(sorted(remaining_words)) :
          /\ Cached(Key(w, errors))
          /\ ~Admissible(Lookup(Key(w, errors)))

\* C5: unless a response fails to parse, the loop eventually stops and
\* reports (runs cut short by the bound of the model are left aside).
C5_Terminates == <>(pc = "done" \/ pc = "aborted" \/ CutShort)

\* a call of call_llm is made in this step
OracleCalled == pc = "while" /\ pc' \in {"for", "aborted"}

\* C6: the oracle is called only while remaining_words is non-empty and
\* fewer than 4 rejected guesses are recorded.
C6_CallsOnlyWhileRunning ==
    [][OracleCalled => remaining_words # {} /\ Len(errors) < 4]_vars

\* C6 witness: the fourth rejected guess was recorded in the fourth call
\* and the run ended without a fifth
C6_Witness ==
    pc = "done" /\ Len(errors) = 4 /\ remaining_words # {} /\ calls = 4

\* C7: a response that does not parse aborts the run: the step that aborts
\* changes none of remaining_words, correct_sets, errors and the cache and
\* reports nothing, and no step follows it (no retry, no further call).
C7_MalformedAborts ==
    [][/\ pc # "aborted"
       /\ pc' = "aborted" =>
            /\ remaining_words' = remaining_words
            /\ correct_sets' = correct_sets
            /\ errors' = errors
            /\ cache' = cache
            /\ \A e \in cache' : e.key # Key(wordlist', errors')
            /\ output' = [kind |-> "none"]
      ]_vars

\* C7 witness: the run aborted on its third call, after a confirmation and
\* a rejected guess
C7_Witness ==
    /\ pc = "aborted"
    /\ calls = 3
    /\ Len(errors) = 1
    /\ Len(correct_sets) = 1

\* C8: a group whose items are not exactly four strings is never recorded
\* as a rejected guess.
C8_OnlyFourItemGuesses ==
    \A i \in 1..Len(errors) : Len(errors[i]) = 4

\* the items of the confirmed groups
ConfirmedItems == UNION {correct_sets[i] : i \in 1..Len(correct_sets)}

\* C9: remaining_words starts as the union of the answer groups, is at
\* every moment that union less the items of the confirmed groups, and
\* never gains an item.
C9_RemainingIsUniverseLessConfirmed ==
    /\ remaining_words = 1..16
    /\ [](remaining_words = (1..16) \ ConfirmedItems)
    /\ [][remaining_words' \subseteq remaining_words]_vars

\* C9 witness: two responses confirmed the four groups between them
C9_Witness ==
    /\ remaining_words = {}
    /\ Len(correct_sets) = 4
    /\ calls = 2

\* C10 as claimed: the report of a solved run holds the confirmed groups
\* and the unused allowance.
C10_SolvedReportsGroups ==
    output.kind = "solved" =>
        /\ "found" \in DOMAIN output
        /\ output.guesses_remaining = 4 - Len(errors)

\* C10 amended: the report of a solved run holds the unused allowance, 4
\* less the number of rejected guesses recorded, and not the confirmed
\* groups.
C10_SolvedReportsAllowance ==
    output.kind = "solved" =>
        /\ remaining_words = {}
        /\ DOMAIN output = {"kind", "guesses_remaining"}
        /\ output.guesses_remaining = 4 - Len(errors)

\* C10 witness: a run solved after one rejected guess
C10_Witness ==
    output.kind = "solved" /\ Len(errors) = 1 /\ Len(correct_sets) = 4

\* a step in which the body of call_llm runs: the call's key was not cached
BodyRuns == OracleCalled /\ ~Cached(call_args')

\* C11: the prompt of every iteration renders the item list as the remaining
\* items, each one quoted, joined by commas, in that iteration's shuffled
\* order: exactly the current remaining items, each once.
C11_ItemsQuoted ==
    [][BodyRuns =>
          /\ prompt'.items = format_list(wordlist')
          /\ ToSet(wordlist') = remaining_words
          /\ Len(wordlist') = Cardinality(remaining_words)]_vars

\* C12: a call whose (items, rejected guesses) tuple already has a stored
\* response returns that response without running the body of call_llm again
\* (no new prompt, no new cache entry), and the cache never holds two
\* responses for one tuple.
C12_Memoized ==
    [][/\ OracleCalled /\ Cached(call_args') =>
             /\ pc' = "for"
             /\ result' = Lookup(call_args')
             /\ cache' = cache
             /\ prompt' = prompt
       /\ \A e1, e2 \in cache' : e1.key = e2.key => e1.value = e2.value]_vars

\* a call was answered from the cache: the last prompt built is not this call's
C12_Witness ==
    /\ pc = "for"
    /\ calls >= 3
    /\ Cached(call_args)
    /\ prompt # Render(call_args.items, call_args.error)

\* the response just returned has a non-matching group as its first candidate
FirstWrong == result # << >> /\ ~IsCorrect(result[1])

\* the runs in which every call returns such a response
FirstWrongNext == Next /\ (OracleCalled => pc' = "for" /\ FirstWrong')

FirstWrongSpec == Init /\ [][FirstWrongNext]_vars /\ WF_vars(FirstWrongNext)

\* C13: if every response has a non-matching group as its first candidate,
\* the run makes exactly four calls and then reports failure with four errors,
\* no confirmed group and all the words remaining.
C13_FourWrongExhausts ==
    /\ [](calls <= 4)
    /\ <>[](/\ pc = "done"
            /\ calls = 4
            /\ output = [kind |-> "failed", found |-> << >>,
                         remaining |-> AllWords]
            /\ Len(errors) = 4
            /\ correct_sets = << >>
            /\ remaining_words = AllWords)

\* the failure report after four calls that each recorded one error
C13_Witness ==
    /\ pc = "done"
    /\ calls = 4
    /\ Len(errors) = 4
    /\ \A i \in 1..4 : ~IsCorrect(errors[i])
    /\ output.kind = "failed"

\* the groups of a response are exactly the four answer groups, in some
\* order of groups and of items
IsFullSolution(gs) ==
    /\ Len(gs) = Len(correct_answers)
    /\ \A a \in 1..Len(correct_answers) :
          \E i \in 1..Len(gs) :
             /\ Len(gs[i]) = Len(correct_answers[a])
             /\ \A x \in ToSet(correct_answers[a]) :
                   \E j \in 1..Len(gs[i]) : gs[i][j] = x

\* the first call has returned the whole solution
SolvedAtOnce == calls = 1 /\ pc # "aborted" /\ IsFullSolution(result)

\* the first candidate of the response just returned is an answer group not
\* yet confirmed or is no answer group
FirstProgresses ==
    /\ result # << >>
    /\ IsCorrect(result[1]) => ToSet(result[1]) \subseteq remaining_words

\* responses for such runs: every answer group alone, a wrong group alone
\* (of four items or of three), an answer group before a wrong group, an answer group twice before
\* a wrong group, and the whole solution
ProgressResponses ==
    {<<g>> : g \in {Reverse(correct_answers[1]), correct_answers[2],
                    correct_answers[3], correct_answers[4], Partial, Short}}
    \cup {<<correct_answers[2], Partial>>,
          <<correct_answers[3], correct_answers[3], Short>>,
          Full, Turned}

\* the contents that carry them, and the malformed ones
ProgressContents ==
    {[json |-> TRUE, reason |-> TRUE, groups |-> g] : g \in ProgressResponses}
    \cup {c \in Contents : ~Parses(c)}

\* a step of the program with the oracle answering from ProgressContents
ProgressRun ==
    \/ CallHit
    \/ CallMissOf(ProgressContents)
    \/ CallFailOf(ProgressContents)
    \/ Correct
    \/ Incorrect
    \/ ForEnd
    \/ ReportSolved
    \/ ReportFailed

\* the runs in which every call returns a response whose first candidate
\* progresses; a response that brings the whole solution first is one
ProgressNext == ProgressRun /\ (OracleCalled => pc' = "for" /\ FirstProgresses')

ProgressSpec == Init /\ [][ProgressNext]_vars /\ WF_vars(ProgressNext)

\* C14: if the first response consists of exactly the four answer groups, in
\* any order of groups and of items, the run makes no second call, records no
\* error and ends reporting success with nothing remaining.
C14_FullFirstSolves ==
    /\ [][SolvedAtOnce => /\ calls' = 1
                          /\ errors' = << >>
                          /\ pc' # "aborted"]_vars
    /\ [](SolvedAtOnce =>
            <>[](/\ pc = "done"
                 /\ calls = 1
                 /\ errors = << >>
                 /\ remaining_words = {}
                 /\ output = [kind |-> "solved",
                              guesses_remaining |-> MaxErrors]))

\* success reported after one call that returned the solution in an order
\* other than the answer key's
C14_Witness ==
    /\ SolvedAtOnce
    /\ pc = "done"
    /\ output.kind = "solved"
    /\ result[1] # correct_answers[1]
    /\ \E i \in 1..Len(result) : \A a \in 1..Len(correct_answers) :
          result[i] # correct_answers[a]

\* C15: any two successive calls of a run are made with different arguments,
\* whatever the responses are: the later call differs from the one before it
\* in the ordered item list or in the list of rejected guesses.
C15_SuccessiveCallsDiffer ==
    [][OracleCalled /\ calls > 0 => call_args' # call_args]_vars

RECURSIVE QuotedItems(_)
\* the items of one guess in the order given, each between quotation marks,
\* with a comma between two of them
QuotedItems(g) ==
    IF g = << >> THEN << >>
    ELSE <<"\"", Word[Head(g)], "\"">>
         \o (IF Len(g) > 1 THEN <<",">> ELSE << >>)
         \o QuotedItems(Tail(g))

RECURSIVE GuessLines(_)
\* one line for every rejected guess, in the order recorded
GuessLines(es) ==
    IF es = << >> THEN << >>
    ELSE QuotedItems(Head(es)) \o <<"\n">> \o GuessLines(Tail(es))

\* the feedback block for the rejected guesses es
Feedback(es) ==
    <<"You previously guessed ", "\n">>
    \o GuessLines(es)
    \o <<"Those answers are not correct. Do not repeat them.", "\n">>

\* C16: the prompt has the feedback block if and only if a rejected guess
\* has been recorded; the block lists every rejected guess recorded so far,
\* one per line in the order recorded, its items quoted and comma-joined in
\* the order the oracle gave them, and ends with the instruction not to
\* repeat them.
C16_FeedbackBlock ==
    [][BodyRuns =>
          /\ prompt'.error_str = << >> <=> errors = << >>
          /\ errors # << >> => prompt'.error_str = Feedback(errors)]_vars

\* a prompt built after two guesses were rejected
C16_Witness ==
    /\ pc = "for"
    /\ Len(errors) >= 2
    /\ call_args.error = errors
    /\ prompt = [items |-> Join(<<",">>, [i \in 1..Len(wordlist) |-> <<Word[wordlist[i]]>>]),
                 error_str |-> Feedback(errors)]

\* C18: whenever no word remains, the set of confirmed groups is the answer
\* key: each of the four answer groups is confirmed and nothing else is.
C18_SolvedMeansAnswerKey ==
    remaining_words = {} =>
       {correct_sets[i] : i \in 1..Len(correct_sets)}
          = {{1, 2, 3, 4}, {5, 6, 7, 8}, {9, 10, 11, 12}, {13, 14, 15, 16}}

\* the loop has exited with nothing remaining, after a wrong guess on the way
C18_Witness ==
    /\ pc = "done"
    /\ remaining_words = {}
    /\ Len(errors) >= 1
    /\ Len(correct_sets) = 4

\* C19: once no word remains while a response is being processed, no later
\* candidate of that response changes the rejected guesses.
C19_NoErrorAfterSolved ==
    [][pc = "for" /\ remaining_words = {} => errors' = errors]_vars

\* the processing of a response ends and the loop condition is tested next
IterationEnds == pc = "for" /\ pc' = "while"

\* C20: if the first candidate of every response is an answer group not yet
\* confirmed or a non-matching group, every loop iteration confirms at least
\* one new group or records exactly one rejected guess (and never more than
\* one), and the run ends after at most 7 calls.
C20_ProgressBoundsCalls ==
    /\ [][IterationEnds =>
             /\ \/ remaining_words' # ToSet(call_args.items)
                \/ Len(errors') = Len(call_args.error) + 1
             /\ Len(errors') <= Len(call_args.error) + 1]_vars
    /\ [](calls <= 7)
    /\ <>[](pc = "done")

\* a run of seven calls: three answer groups confirmed one call each, three
\* guesses rejected one call each, and a last call
C20_Witness ==
    /\ pc = "done"
    /\ calls = 7
    /\ Len(errors) + Len(correct_sets) = 7

====
